---- MODULE Spec2Model ----
(***************************************************************************)
(* A model of open-vtt.py: the convert pipeline (cmd_convert and the stage *)
(* functions it calls) as a state machine over the program position pc,    *)
(* and the VTT extraction of call_gemini as an operator over bounded       *)
(* response texts.                                                         *)
(*                                                                         *)
(* External collaborators (ffprobe, ffmpeg, the whisper engines, the       *)
(* Gemini client libraries, the file system) are the environment: every    *)
(* outcome they can report is drawn with \E in the action that calls them. *)
(***************************************************************************)
EXTENDS Integers, Sequences, FiniteSets, TLC

(***************************************************************************)
(* Bounds of the model.                                                    *)
(***************************************************************************)
\* largest file size the environment produces, in units of the configured
\* ceiling (0 is below it, 1 is equal to it, 2 and more are over it)
MaxFileSize == 2
\* longest configured video.downsample_targets list
MaxTargets == 2
\* most client.files.get polls the history holds apart
MaxPolls == 1
\* longest response text, in lexemes
MaxLen == 6
\* highest suffix of an output name that exists before get_output_path runs
MaxExisting == 4
\* longest request path, in tokens
MaxPathLen == 6

VARIABLES
    pc,                 \* position in cmd_convert / the stage functions
    HAS_MLX_WHISPER,    \* module globals set by the optional imports
    HAS_WHISPER,
    HAS_GENAI,
    GENAI_NEW,
    MAX_SIZE_MB,        \* CONFIG["video"]["max_size_mb"], the unit of size
    DOWNSAMPLE_TARGETS, \* CONFIG["video"]["downsample_targets"]
    env_key,            \* os.environ's GEMINI_API_KEY: unset, empty or set
    secrets_file,       \* secrets.json: missing, invalid, or its key's class
    mode,               \* the command main dispatches to; None before
    all_ok,             \* cmd_check's local
    failed,             \* cmd_test's count of failed assertions
    code,               \* the exit code run_command returned last
    video_path,         \* "direct" | "media" | "none"
    api_key,            \* None or the resolved credential
    prompt_path,        \* None, or "found" (as configured or under BASE_DIR)
    metadata,           \* ffprobe_check's result: {} or the probe result
    subtitles_file,     \* subtitles_path on disk
    success,            \* cmd_convert's local
    target,             \* index of the preset the reducer's loop is at
    downsampled_file,   \* downsampled_path on disk: -1 (missing) or its size
    final_video,        \* None | "original" | "downsampled"
    video_file,         \* state name of the uploaded remote file
    polls,              \* number of files.get calls the history holds
    result,             \* call_gemini's return value
    log_file,           \* the final .log output on disk
    vtt_file,           \* the final .vtt output on disk
    exit_code,          \* -1 while running, else the process exit code
    trace,              \* history: external calls and log lines, in order
    stages,             \* history: stages invoked, with what each reported
    text,               \* extraction harness: the response text
    vtt_text,           \* extraction harness: what was extracted
    seconds,            \* to_vtt_time's argument
    stamp,              \* to_vtt_time's return value
    config_file,        \* config.json: missing, invalid, or its document
    CONFIG,             \* load_config's return value
    directory,          \* get_output_path: the names that exist in `directory`
    specified,          \* get_output_path's argument
    output,             \* get_output_path's local, and what it returns
    counter,            \* get_output_path's local; 0 before it is assigned
    request_path,       \* OpenVTTHandler: the path of a GET request
    resolved            \* OpenVTTHandler: the file system path it is served from

\* the module-level globals: set at import, never assigned again
globals == <<HAS_MLX_WHISPER, HAS_WHISPER, HAS_GENAI, GENAI_NEW,
             MAX_SIZE_MB, DOWNSAMPLE_TARGETS>>

\* where get_api_key looks: never assigned by the program
environment == <<env_key, secrets_file>>

\* main's dispatch and what cmd_check and cmd_test compute
mainvars == <<mode, all_ok, failed>>

\* the state of a convert run, its position apart
pipestate == <<globals, environment, mainvars, code, video_path, api_key,
               prompt_path, metadata, subtitles_file, success, target,
               downsampled_file, final_video, video_file, polls, result,
               log_file, vtt_file, exit_code, trace, stages>>

pipevars == <<pc, pipestate>>

textvars == <<text, vtt_text>>

timevars == <<seconds, stamp>>

\* the variables of the pure functions checked on their own
confvars == <<config_file, CONFIG>>

pathvars == <<directory, specified, output, counter>>

httpvars == <<request_path, resolved>>

harnessvars == <<textvars, timevars, confvars, pathvars, httpvars>>

vars == <<pipevars, harnessvars>>

\* Python's None, where the value is otherwise a string
None == "None"

\* a path on disk: missing, or a file holding these lines / lexemes
NoFile == [exists |-> FALSE, lines |-> <<>>]
File(lines) == [exists |-> TRUE, lines |-> lines]

\* one entry of the history: an external call or a log line
Ev(op, n, s) == [op |-> op, n |-> n, s |-> s]

(***************************************************************************)
(* Response texts and the extraction of call_gemini.                       *)
(* A text is a sequence of lexemes: "W" is the marker WEBVTT, "F" is the   *)
(* fence ```, "s" is a whitespace character, "x" any other character.      *)
(* Indices are Python's: 0-based, -1 for not found.                        *)
(***************************************************************************)
Lexemes == {"W", "F", "s", "x"}

RECURSIVE TextsOfLen(_)
TextsOfLen(n) ==
    IF n = 0 THEN {<<>>}
    ELSE {Append(t, c) : t \in TextsOfLen(n - 1), c \in Lexemes}

Texts == UNION {TextsOfLen(n) : n \in 0..MaxLen}

\* variant of Find: the highest index is taken
Find_last(t, lex, start) ==
    LET hits == {i \in start..(Len(t) - 1) : t[i + 1] = lex}
    IN  IF hits = {} THEN -1
        ELSE CHOOSE i \in hits : \A j \in hits : j <= i

\* str.find(sub, start): lowest index >= start holding the lexeme, else -1
Find(t, lex, start) ==
    LET hits == {i \in start..(Len(t) - 1) : t[i + 1] = lex}
    IN  IF hits = {} THEN -1
        ELSE CHOOSE i \in hits : \A j \in hits : i <= j

\* the slice t[a:b]
Slice(t, a, b) == SubSeq(t, a + 1, b)

\* str.strip(): leading and trailing whitespace removed
Strip(t) ==
    LET keep == {i \in 1..Len(t) : t[i] # "s"}
    IN  IF keep = {} THEN <<>>
        ELSE LET lo == CHOOSE i \in keep : \A j \in keep : i <= j
                 hi == CHOOSE i \in keep : \A j \in keep : j <= i
             IN  SubSeq(t, lo, hi)

\* "WEBVTT" in text
Contains(t, lex) == \E i \in 1..Len(t) : t[i] = lex

\* call_gemini, lines 746-758
ExtractVtt(t) ==
    IF Contains(t, "W")
    THEN LET vtt_start == Find(t, "W", 0)
             vtt_end == Find(t, "F", vtt_start)
         IN  IF vtt_end > vtt_start
             THEN Strip(Slice(t, vtt_start, vtt_end))
             ELSE Strip(Slice(t, vtt_start, Len(t)))
    ELSE t

\* cmd_test, lines 940-949: the helper the self-tests call in place of
\* call_gemini's lines; without a fence it returns the slice as it is
extract_vtt(t) ==
    IF Contains(t, "W")
    THEN LET vtt_start == Find(t, "W", 0)
             vtt_end == Find(t, "F", vtt_start)
         IN  IF vtt_end = -1
             THEN Slice(t, vtt_start, Len(t))
             ELSE Strip(Slice(t, vtt_start, vtt_end))
    ELSE t

(***************************************************************************)
(* to_vtt_time.  A number of seconds is its integer part and its fraction, *)
(* the fraction counted in tenths of a microsecond; a string is the        *)
(* sequence of its characters.                                             *)
(***************************************************************************)
\* datetime.timedelta keeps whole microseconds
MicrosPerSecond == 1000000

\* the fraction's unit is a tenth of a microsecond
TicksPerMicro == MicrosPerSecond \div 100000

TicksPerSecond == TicksPerMicro * MicrosPerSecond

\* timedelta(seconds=...): a float is rounded to the nearest microsecond,
\* a tie to the even one
RoundHalfEven(n, q) ==
    LET lo == n \div q
        r == n % q
    IN  IF 2 * r < q THEN lo
        ELSE IF 2 * r > q THEN lo + 1
        ELSE IF lo % 2 = 0 THEN lo ELSE lo + 1

DigitChars == <<"0", "1", "2", "3", "4", "5", "6", "7", "8", "9">>

\* str(n) for n >= 0
RECURSIVE Digits(_)
Digits(n) ==
    IF n < 10 THEN <<DigitChars[n + 1]>>
    ELSE Append(Digits(n \div 10), DigitChars[(n % 10) + 1])

\* the format specs :02 and :03: zero-padded to at least `width` characters
Pad(n, width) ==
    LET ds == Digits(n)
    IN  [i \in 1..(IF Len(ds) < width THEN width - Len(ds) ELSE 0) |-> "0"]
        \o ds

\* to_vtt_time: int(td.total_seconds()) of td = timedelta(seconds=seconds)
TotalSeconds(s) ==
    s.int + (RoundHalfEven(s.frac, TicksPerMicro) \div MicrosPerSecond)

\* to_vtt_time: int((seconds - int(seconds)) * 1000); the fraction is below
\* one second, so the product is the fraction in thousandths of a second
Milliseconds(s) == s.frac \div (TicksPerSecond \div 1000)

\* to_vtt_time, lines 197-204
to_vtt_time(s) ==
    LET total_seconds == TotalSeconds(s)
        hours == total_seconds \div 3600
        remainder == total_seconds % 3600
        minutes == remainder \div 60
        secs == remainder % 60
        milliseconds == Milliseconds(s)
    IN  Pad(hours, 2) \o <<":">> \o Pad(minutes, 2) \o <<":">>
        \o Pad(secs, 2) \o <<".">> \o Pad(milliseconds, 3)

\* the arguments to_vtt_time is applied to: whole seconds around the minute,
\* the hour and the hundredth hour, and fractions around the millisecond
\* and the microsecond
WholeSamples == {0, 1, 59, 60, 61, 90, 3599, 3600, 3661, 359999, 360000}

MilliSamples == {0, 1, 123, 500, 999}

SubMilliSamples == {0, 1, 4, 5, 6, 4999, 9994, 9995, 9996, 9999}

TimeInputs ==
    {[int |-> w, frac |-> (m * (TicksPerSecond \div 1000)) + r] :
        w \in WholeSamples, m \in MilliSamples, r \in SubMilliSamples}

(***************************************************************************)
(* load_config.  A JSON value is a dict (its items a function from keys),  *)
(* a list (its elements in val) or a scalar (val holds it).                *)
(***************************************************************************)
NoItems == [k \in {} |-> 0]

Dict(items) == [kind |-> "dict", items |-> items, val |-> <<>>]

List(elements) == [kind |-> "list", items |-> NoItems, val |-> elements]

Scalar(v) == [kind |-> "scalar", items |-> NoItems, val |-> <<v>>]

\* load_config, lines 41-63: the defaults
DefaultConfig ==
    [gemini |->
        Dict([model |-> Scalar("gemini-3-pro-preview"),
              temperature |-> Scalar("0.7"),
              grounding |-> Dict([enabled |-> Scalar("True"),
                                  source |-> Scalar("google_search")])]),
     video |->
        Dict([max_size_mb |-> Scalar("400"),
              downsample_targets |->
                 List(<<"10fps 1080p", "5fps 1080p", "5fps 720p",
                        "1fps 480p">>)]),
     transcription |-> Dict([language |-> Scalar("en")]),
     files |-> Dict([prompt |-> Scalar("prompts/gemini_vtt_prompt.md")])]

\* variant of deep_update: dict.update, nested dicts are not merged
deep_update_shallow(base, update) ==
    [k \in (DOMAIN base) \cup (DOMAIN update) |->
        IF k \in DOMAIN update THEN update[k] ELSE base[k]]

\* load_config.deep_update, lines 72-77, on the items of two dicts; the loop
\* treats each key of `update` on its own
RECURSIVE deep_update(_, _)
deep_update(base, update) ==
    [k \in (DOMAIN base) \cup (DOMAIN update) |->
        IF k \notin DOMAIN update THEN base[k]
        ELSE LET v == update[k]
             IN  IF v.kind = "dict" /\ k \in DOMAIN base
                    /\ base[k].kind = "dict"
                 THEN Dict(deep_update(base[k].items, v.items))
                 ELSE v]

\* load_config, lines 65-82: the defaults when config.json is missing or is
\* not valid JSON, else the defaults updated with its document
load_config(file) ==
    IF file.state = "valid" THEN deep_update(DefaultConfig, file.doc)
    ELSE DefaultConfig

\* the functions from a subset of the keys to the values
PartialMaps(keys, values) == UNION {[S -> values] : S \in SUBSET keys}

\* the values an override document puts at a key: a scalar or a list
OverrideLeaves == {Scalar("override"), List(<<"custom">>)}

\* the override documents: dicts of up to three levels over keys the
\* defaults have as dicts, as leaves, or not at all
OverrideLevel3 ==
    OverrideLeaves
    \cup {Dict(f) : f \in PartialMaps({"enabled", "extra"}, OverrideLeaves)}

OverrideLevel2 ==
    OverrideLeaves
    \cup {Dict(f) : f \in PartialMaps({"grounding", "downsample_targets"},
                                      OverrideLevel3)}

OverrideDocuments == PartialMaps({"gemini", "video"}, OverrideLevel2)

ConfigFiles ==
    {[state |-> "missing", doc |-> NoItems],
     [state |-> "invalid", doc |-> NoItems]}
    \cup {[state |-> "valid", doc |-> d] : d \in OverrideDocuments}

(***************************************************************************)
(* OpenVTTHandler.  A request path is a sequence of tokens: "/" is a       *)
(* slash, "%2F" a percent-encoded slash, "media", ".." and "a" are runs of *)
(* other characters.  A file system path is a root and its segments below  *)
(* it, a segment being the tokens between two slashes.                     *)
(***************************************************************************)
PathTokens == {"/", "%2F", "media", "..", "a"}

RECURSIVE TokensOfLen(_)
TokensOfLen(n) ==
    IF n = 0 THEN {<<>>}
    ELSE {Append(t, c) : t \in TokensOfLen(n - 1), c \in PathTokens}

\* the request paths: a slash and up to MaxPathLen - 1 more tokens
RequestPaths ==
    {<<"/">> \o t : t \in UNION {TokensOfLen(n) : n \in 0..(MaxPathLen - 1)}}

NoFsPath == [root |-> None, segs |-> <<>>]

\* urllib.parse.unquote
unquote(path) ==
    [i \in 1..Len(path) |-> IF path[i] = "%2F" THEN "/" ELSE path[i]]

\* path.startswith("/media/")
StartsWithMedia(path) ==
    Len(path) >= 3 /\ SubSeq(path, 1, 3) = <<"/", "media", "/">>

\* path.replace("/media/", ""): every occurrence is removed, left to right
RECURSIVE ReplaceMedia(_)
ReplaceMedia(path) ==
    IF Len(path) < 3 THEN path
    ELSE IF SubSeq(path, 1, 3) = <<"/", "media", "/">>
         THEN ReplaceMedia(SubSeq(path, 4, Len(path)))
         ELSE <<Head(path)>> \o ReplaceMedia(Tail(path))

\* the segments of a path: the runs of tokens between slashes, empty runs
\* dropped
RECURSIVE Segments(_, _)
Segments(path, cur) ==
    LET done == IF cur = <<>> THEN <<>> ELSE <<cur>>
    IN  IF path = <<>> THEN done
        ELSE IF Head(path) = "/"
             THEN done \o Segments(Tail(path), <<>>)
             ELSE Segments(Tail(path), Append(cur, Head(path)))

\* pathlib's MEDIA_DIR / rest: an absolute `rest` replaces MEDIA_DIR
JoinMedia(rest) ==
    IF rest # <<>> /\ Head(rest) = "/"
    THEN [root |-> "/", segs |-> Segments(rest, <<>>)]
    ELSE [root |-> "MEDIA_DIR", segs |-> Segments(rest, <<>>)]

\* posixpath.normpath on segments: a ".." removes the segment before it, or
\* is dropped at the root
RECURSIVE Normpath(_, _)
Normpath(segs, acc) ==
    IF segs = <<>> THEN acc
    ELSE IF Head(segs) = <<"..">>
         THEN Normpath(Tail(segs),
                       IF acc = <<>> THEN acc
                       ELSE SubSeq(acc, 1, Len(acc) - 1))
         ELSE Normpath(Tail(segs), Append(acc, Head(segs)))

\* SimpleHTTPRequestHandler.translate_path: below the working directory,
\* which cmd_serve has set to BASE_DIR
DefaultTranslate(path) ==
    [root |-> "BASE_DIR", segs |-> Normpath(Segments(path, <<>>), <<>>)]

\* OpenVTTHandler.translate_path, lines 337-355; in_media tells whether
\* MEDIA_DIR / path_clean exists
translate_path(raw, in_media) ==
    LET path == unquote(raw)
    IN  IF StartsWithMedia(path) THEN JoinMedia(ReplaceMedia(path))
        ELSE IF in_media /\ path[Len(path)] # "player.html"
             THEN [root |-> "MEDIA_DIR", segs |-> Segments(path, <<>>)]
             ELSE DefaultTranslate(path)

\* OpenVTTHandler.do_GET, lines 320-324: "/" is the player page
do_GET(path) == IF path = <<"/">> THEN <<"/", "player.html">> ELSE path

(***************************************************************************)
(* The convert pipeline: helpers.                                          *)
(***************************************************************************)
\* the response texts the remote model answers with in the pipeline
SampleResponses ==
    { <<"x", "x">>,
      <<"x", "F", "W", "x", "s", "F", "x">> }

NoResult == [some |-> FALSE, raw |-> <<>>, vtt |-> <<>>]

NoMetadata ==
    [populated |-> FALSE, has_audio |-> FALSE, has_subtitles |-> FALSE,
     size_mb |-> 0]

\* the document cmd_convert writes for a silent film, line by line
PlaceholderDoc ==
    <<"WEBVTT", "", "NOTE This video has no audio track (silent film).", "">>

\* the document transcribe_with_whisper writes: the header, then one block
\* per segment the engine returned
TranscribedDoc(segments) ==
    <<"WEBVTT", "">> \o
    (IF segments = "none" THEN <<>> ELSE <<"start --> end", "text", "">>)

\* sys.exit(status), or main returning (status 0)
Exit(status) ==
    /\ pc' = "exit"
    /\ exit_code' = status

Log(s) == Ev("log", 0, s)

\* one entry of the stage history: the stage cmd_convert invoked and whether
\* the value it returned reports success
Stage(name, ok) == [name |-> name, ok |-> ok]

\* variant of get_api_key: secrets.json is looked at before the environment
get_api_key_secrets_first(env, secrets) ==
    IF secrets \notin {"missing", "invalid", "no-key", "empty",
                       "YOUR_placeholder"}
    THEN "secrets-key"
    ELSE IF env \notin {"unset", "empty"} THEN "env-key"
    ELSE None

\* get_api_key: env is the environment value, secrets the state of
\* secrets.json ("missing", "invalid", or the class of its GEMINI_API_KEY)
get_api_key(env, secrets) ==
    IF env \notin {"unset", "empty"} THEN "env-key"
    ELSE IF secrets \in {"missing", "invalid"} THEN None
    ELSE IF secrets \notin {"no-key", "empty"} /\ secrets # "YOUR_placeholder"
         THEN "secrets-key"
    ELSE None

\* variant of IsSilent: the subtitle stream is looked at first
IsSilent_subsfirst(md) == ~md.has_audio /\ ~md.has_subtitles

\* cmd_convert: `if not metadata.get("has_audio")`
IsSilent(md) == ~md.has_audio

\* cmd_convert: `if not metadata`
ProbeFailed(md) == ~md.populated

\* extract_subtitles: `code == 0 and output_path.exists()`
ExtractReturns(rc, file) == rc = 0 /\ file.exists

\* cmd_convert: `if not success or not subtitles_path.exists()`
SubtitlesFailed(succ, file) == ~succ \/ ~file.exists

\* variant of SelectEngine: the two branches swapped
SelectEngine_swapped(has_mlx, has_whisper) ==
    IF has_whisper THEN "whisper"
    ELSE IF has_mlx THEN "mlx_whisper"
    ELSE "none"

\* transcribe_with_whisper: the engine the if/elif chain selects
SelectEngine(has_mlx, has_whisper) ==
    IF has_mlx THEN "mlx_whisper"
    ELSE IF has_whisper THEN "whisper"
    ELSE "none"

\* transcribe_with_whisper: what `except Exception` makes of a raise
TranscribeReturns(outcome) == outcome = "ok"

(***************************************************************************)
(* The convert pipeline: pre-flight checks, probe, baseline subtitles.     *)
(***************************************************************************)
\* the values of GEMINI_API_KEY in the environment
EnvValues == {"unset", "empty", "set"}

\* the states of secrets.json: missing, not valid JSON, or valid with no
\* GEMINI_API_KEY, an empty one, one that starts with YOUR_, or another
SecretsStates ==
    {"missing", "invalid", "no-key", "empty", "YOUR_placeholder", "set"}

\* for a whole run, one environment for each way get_api_key returns: None,
\* the environment's key, the key of secrets.json
CredentialSamples ==
    {<<"unset", "YOUR_placeholder">>, <<"set", "set">>, <<"empty", "set">>}

\* the state a run starts in, the environment and the position apart
PipeStart ==
    /\ all_ok = TRUE
    /\ failed = 0
    /\ HAS_MLX_WHISPER \in BOOLEAN
    /\ HAS_WHISPER \in BOOLEAN
    /\ HAS_GENAI \in BOOLEAN
    /\ GENAI_NEW \in (IF HAS_GENAI THEN BOOLEAN ELSE {FALSE})
    /\ MAX_SIZE_MB = 1
    /\ DOWNSAMPLE_TARGETS \in {[i \in 1..n |-> i] : n \in 0..MaxTargets}
    /\ code = 0
    /\ video_path = "none"
    /\ api_key = None
    /\ prompt_path = None
    /\ metadata = NoMetadata
    /\ subtitles_file = NoFile
    /\ success = FALSE
    /\ target = 0
    /\ downsampled_file = -1
    /\ final_video = None
    /\ video_file = None
    /\ polls = 0
    /\ result = NoResult
    /\ log_file = NoFile
    /\ vtt_file = NoFile
    /\ exit_code = -1
    /\ trace = <<>>
    /\ stages = <<>>

\* the process starts in main
PipeInit ==
    /\ PipeStart
    /\ pc = "main"
    /\ mode = None
    /\ \E c \in CredentialSamples : env_key = c[1] /\ secrets_file = c[2]

\* cmd_convert, lines 790-799
FindVideo ==
    /\ pc = "find_video"
    /\ \E found \in {"direct", "media", "none"} :
          /\ video_path' = found
          /\ IF found = "none"
             THEN Exit(1)
             ELSE pc' = "check_api_key" /\ UNCHANGED exit_code
    /\ UNCHANGED <<globals, environment, mainvars, code,
                   api_key, prompt_path,
                   metadata, subtitles_file, success, target,
                   downsampled_file, final_video, video_file, polls, result,
                   log_file, vtt_file, trace, stages, harnessvars>>

\* cmd_convert, lines 811-816
CheckApiKey ==
    /\ pc = "check_api_key"
    /\ api_key' = get_api_key(env_key, secrets_file)
    /\ IF api_key' = None
       THEN Exit(1)
       ELSE pc' = "check_prompt" /\ UNCHANGED exit_code
    /\ UNCHANGED <<globals, environment, mainvars, code,
                   video_path, prompt_path,
                   metadata, subtitles_file, success, target,
                   downsampled_file, final_video, video_file, polls, result,
                   log_file, vtt_file, trace, stages, harnessvars>>

\* variant of PromptMissing: the run goes on without a prompt file
PromptMissing_never(path) == FALSE

\* cmd_convert, lines 820-827: PROMPT_FILE exists neither as configured nor
\* under BASE_DIR
PromptMissing(path) == path = None

\* cmd_convert, lines 818-827
CheckPrompt ==
    /\ pc = "check_prompt"
    /\ \E found \in {"configured", "base_dir", "none"} :
          /\ prompt_path' = (IF found = "none" THEN None ELSE "found")
          /\ IF PromptMissing(prompt_path')
             THEN Exit(1)
             ELSE pc' = "probe" /\ UNCHANGED exit_code
    /\ UNCHANGED <<globals, environment, mainvars, code,
                   video_path, api_key,
                   metadata, subtitles_file, success, target,
                   downsampled_file, final_video, video_file, polls, result,
                   log_file, vtt_file, trace, stages, harnessvars>>

\* ffprobe_check: {} on a non-zero exit or unparsable output
ffprobe_check(rc, parses, audio, subs, size) ==
    IF rc # 0 \/ ~parses THEN NoMetadata
    ELSE [populated |-> TRUE, has_audio |-> audio, has_subtitles |-> subs,
          size_mb |-> size]

\* cmd_convert, lines 829-834 (step 1)
Probe ==
    /\ pc = "probe"
    /\ \E rc \in {0, 1}, parses \in BOOLEAN, audio \in BOOLEAN,
          subs \in BOOLEAN, size \in 0..MaxFileSize :
          /\ code' = rc
          /\ metadata' = ffprobe_check(rc, parses, audio, subs, size)
          /\ trace' = Append(trace, Ev("ffprobe", rc, "original"))
    /\ stages' = Append(stages, Stage("probe", metadata'.populated))
    /\ IF ProbeFailed(metadata')
       THEN Exit(1)
       ELSE pc' = "acquire" /\ UNCHANGED exit_code
    /\ UNCHANGED <<globals, environment, mainvars,
                   video_path, api_key,
                   prompt_path, subtitles_file, success, target,
                   downsampled_file, final_video, video_file, polls, result,
                   log_file, vtt_file, harnessvars>>

\* cmd_convert, lines 840-845: silent film
SilentMovie ==
    /\ pc = "acquire"
    /\ IsSilent(metadata)
    /\ subtitles_file' = File(PlaceholderDoc)
    /\ success' = TRUE
    /\ trace' = Append(trace, Log("silent-movie"))
    /\ pc' = "check_subtitles"
    /\ UNCHANGED <<globals, environment, mainvars, code,
                   video_path, api_key,
                   prompt_path, metadata, target, downsampled_file,
                   final_video, video_file, polls, result, log_file,
                   vtt_file, exit_code, stages, harnessvars>>

\* cmd_convert, lines 846-848, and extract_subtitles: ffmpeg exits with
\* `code` and leaves `out` at output_path
ExtractSubtitles ==
    /\ pc = "acquire"
    /\ ~IsSilent(metadata)
    /\ metadata.has_subtitles
    /\ \E rc \in {0, 1},
          out \in {NoFile, File(<<>>), File(<<"WEBVTT", "", "cue">>)} :
          /\ code' = rc
          /\ subtitles_file' = out
          /\ success' = ExtractReturns(rc, out)
          /\ trace' = Append(trace, Ev("extract_subtitles", rc, "original"))
    /\ pc' = IF success' THEN "check_subtitles" ELSE "transcribe"
    /\ UNCHANGED <<globals, environment, mainvars,
                   video_path, api_key,
                   prompt_path, metadata, target, downsampled_file,
                   final_video, video_file, polls, result, log_file,
                   vtt_file, exit_code, stages, harnessvars>>

\* cmd_convert, lines 850-851: audio and no embedded subtitles
NoEmbeddedSubtitles ==
    /\ pc = "acquire"
    /\ ~IsSilent(metadata)
    /\ ~metadata.has_subtitles
    /\ pc' = "transcribe"
    /\ UNCHANGED <<globals, environment, mainvars, code,
                   video_path, api_key,
                   prompt_path, metadata, subtitles_file, success, target,
                   downsampled_file, final_video, video_file, polls, result,
                   log_file, vtt_file, exit_code, trace, stages, harnessvars>>

\* transcribe_with_whisper. The engine either returns its segments ("ok"),
\* raises before the output file is opened ("raise"), or a segment makes
\* the writing loop raise after the header is written ("raise-writing").
Transcribe ==
    /\ pc = "transcribe"
    /\ LET engine == SelectEngine(HAS_MLX_WHISPER, HAS_WHISPER)
       IN  IF engine = "none"
           THEN /\ trace' = Append(trace, Log("no-whisper-available"))
                /\ success' = FALSE
                /\ UNCHANGED subtitles_file
           ELSE \E outcome \in {"ok", "raise", "raise-writing"},
                   segments \in {"none", "some"} :
                   /\ trace' = Append(trace, Ev(engine, 0, outcome))
                   /\ success' = TranscribeReturns(outcome)
                   /\ subtitles_file' =
                         CASE outcome = "ok" -> File(TranscribedDoc(segments))
                           [] outcome = "raise" -> subtitles_file
                           [] OTHER -> File(TranscribedDoc("none"))
    /\ pc' = "check_subtitles"
    /\ UNCHANGED <<globals, environment, mainvars, code,
                   video_path, api_key,
                   prompt_path, metadata, target, downsampled_file,
                   final_video, video_file, polls, result, log_file,
                   vtt_file, exit_code, stages, harnessvars>>

\* cmd_convert, lines 853-855
CheckSubtitles ==
    /\ pc = "check_subtitles"
    /\ stages' = Append(stages, Stage("acquire", success /\ subtitles_file.exists))
    /\ IF SubtitlesFailed(success, subtitles_file)
       THEN Exit(1)
       ELSE pc' = "downsample" /\ UNCHANGED exit_code
    /\ UNCHANGED <<globals, environment, mainvars, code,
                   video_path, api_key,
                   prompt_path, metadata, subtitles_file, success, target,
                   downsampled_file, final_video, video_file, polls, result,
                   log_file, vtt_file, trace, harnessvars>>

(***************************************************************************)
(* The convert pipeline: downsample_video.                                 *)
(***************************************************************************)
\* variant of NoDownsamplingNeeded: `<` for `<=`
NoDownsamplingNeeded_strict(size_mb, max) == size_mb < max

\* downsample_video: `if size_mb <= MAX_SIZE_MB`
NoDownsamplingNeeded(size_mb, max) == size_mb <= max

\* downsample_video: the input every ffmpeg attempt reads (str(video_path))
TranscodeInput == "original"

\* variant of TargetAccepted: the size of the output is not compared
TargetAccepted_nosize(rc, file, max) == rc = 0 /\ file # -1

\* downsample_video: `code == 0 and output_path.exists()` and then
\* `new_size <= MAX_SIZE_MB`; file is -1 when output_path is missing
TargetAccepted(rc, file, max) == rc = 0 /\ file # -1 /\ file <= max

\* variant of NextTarget: a preset is skipped
NextTarget_skip(i) == i + 2

\* downsample_video: the preset tried after the one at index i
NextTarget(i) == i + 1

\* variant of ReduceFailed: the reducer's None goes unnoticed
ReduceFailed_never(fv) == FALSE

\* cmd_convert: `if not final_video`
ReduceFailed(fv) == fv = None

\* the size of the file final_video names
FinalVideoSize ==
    IF final_video = "downsampled" THEN downsampled_file
    ELSE metadata.size_mb

\* cmd_convert, lines 857-860, and downsample_video, lines 521-527
DownsampleStart ==
    /\ pc = "downsample"
    /\ trace' = Append(trace, Ev("downsample_video", metadata.size_mb,
                                 "original"))
    /\ IF NoDownsamplingNeeded(metadata.size_mb, MAX_SIZE_MB)
       THEN /\ final_video' = "original"
            /\ pc' = "check_final_video"
            /\ UNCHANGED target
       ELSE /\ target' = 1
            /\ pc' = "downsample_loop"
            /\ UNCHANGED final_video
    /\ UNCHANGED <<globals, environment, mainvars, code,
                   video_path, api_key,
                   prompt_path, metadata, subtitles_file, success,
                   downsampled_file, video_file, polls, result, log_file,
                   vtt_file, exit_code, stages, harnessvars>>

\* downsample_video, lines 529-552: one iteration of the preset loop.
\* ffmpeg exits 0 having written a file of size `out`, or exits non-zero
\* leaving output_path as it was (out = -1) or holding a truncated file
\* (out = 0); the size is not read after a non-zero exit.
TryTarget ==
    /\ pc = "downsample_loop"
    /\ target <= Len(DOWNSAMPLE_TARGETS)
    /\ \E rc \in {0, 1}, out \in -1..MaxFileSize :
          /\ IF rc = 0 THEN out # -1 ELSE out \in {-1, 0}
          /\ code' = rc
          /\ downsampled_file' = IF out = -1 THEN downsampled_file ELSE out
          /\ trace' = Append(trace, Ev("ffmpeg", DOWNSAMPLE_TARGETS[target],
                                       TranscodeInput))
          /\ IF TargetAccepted(rc, downsampled_file', MAX_SIZE_MB)
             THEN /\ final_video' = "downsampled"
                  /\ pc' = "check_final_video"
                  /\ UNCHANGED target
             ELSE /\ target' = NextTarget(target)
                  /\ UNCHANGED <<final_video, pc>>
    /\ UNCHANGED <<globals, environment, mainvars,
                   video_path, api_key,
                   prompt_path, metadata, subtitles_file, success,
                   video_file, polls, result, log_file, vtt_file, exit_code,
                   stages, harnessvars>>

\* downsample_video, lines 554-555: the preset list is exhausted
TargetsExhausted ==
    /\ pc = "downsample_loop"
    /\ target > Len(DOWNSAMPLE_TARGETS)
    /\ final_video' = None
    /\ trace' = Append(trace, Log("could-not-downsample"))
    /\ pc' = "check_final_video"
    /\ UNCHANGED <<globals, environment, mainvars, code,
                   video_path, api_key,
                   prompt_path, metadata, subtitles_file, success, target,
                   downsampled_file, video_file, polls, result, log_file,
                   vtt_file, exit_code, stages, harnessvars>>

\* cmd_convert, lines 862-864
CheckFinalVideo ==
    /\ pc = "check_final_video"
    /\ stages' = Append(stages, Stage("reduce", final_video # None))
    /\ IF ReduceFailed(final_video)
       THEN Exit(1)
       ELSE pc' = "call_gemini" /\ UNCHANGED exit_code
    /\ UNCHANGED <<globals, environment, mainvars, code,
                   video_path, api_key,
                   prompt_path, metadata, subtitles_file, success, target,
                   downsampled_file, final_video, video_file, polls, result,
                   log_file, vtt_file, trace, harnessvars>>

(***************************************************************************)
(* The convert pipeline: call_gemini.                                      *)
(***************************************************************************)
\* the states the remote file reports (video_file.state.name); the code
\* compares the name with "PROCESSING" and "FAILED" only, and "ACTIVE"
\* stands for every other name
FileStates == {"PROCESSING", "ACTIVE", "FAILED"}

\* variant of StillProcessing: the loop goes on while the file is not FAILED
StillProcessing_untilFailed(state) == state # "FAILED"

\* call_gemini: the condition of `while video_file.state.name == ...`
StillProcessing(state) == state = "PROCESSING"

\* variant of ProcessingFailed: the FAILED state is not looked at
ProcessingFailed_never(state) == FALSE

\* call_gemini: `if video_file.state.name == "FAILED"`
ProcessingFailed(state) == state = "FAILED"

\* call_gemini, lines 669-676: the new SDK's inner handler logs the model and
\* the file URI when "404" is in the message; the legacy branch has no
\* inner handler
NotFoundDiagnostics(genai_new, outcome) ==
    IF genai_new /\ outcome = "err-404"
    THEN <<Log("404-not-found"), Log("model"), Log("file-uri"),
           Log("404-hint"), Ev("raise", 0, outcome)>>
    ELSE <<>>

\* call_gemini, lines 572-574 and 576-617
GeminiStart ==
    /\ pc = "call_gemini"
    /\ IF ~HAS_GENAI
       THEN /\ result' = NoResult
            /\ trace' = Append(trace, Log("genai-not-installed"))
            /\ pc' = "check_result"
       ELSE /\ trace' = Append(trace, Ev("call_gemini", FinalVideoSize,
                                         final_video))
            /\ pc' = "upload"
            /\ UNCHANGED result
    /\ UNCHANGED <<globals, environment, mainvars, code,
                   video_path, api_key,
                   prompt_path, metadata, subtitles_file, success, target,
                   downsampled_file, final_video, video_file, polls,
                   log_file, vtt_file, exit_code, stages, harnessvars>>

\* call_gemini, lines 626 / 693: the upload returns the remote file in some
\* state, or raises (caught at line 765)
Upload ==
    /\ pc = "upload"
    /\ \E outcome \in FileStates \cup {"raise"} :
          IF outcome = "raise"
          THEN /\ trace' = trace \o <<Ev("upload", FinalVideoSize, "raise"),
                                      Log("gemini-api-error")>>
               /\ result' = NoResult
               /\ pc' = "check_result"
               /\ UNCHANGED video_file
          ELSE /\ trace' = Append(trace, Ev("upload", FinalVideoSize, outcome))
               /\ video_file' = outcome
               /\ pc' = "poll"
               /\ UNCHANGED result
    /\ UNCHANGED <<globals, environment, mainvars, code,
                   video_path, api_key,
                   prompt_path, metadata, subtitles_file, success, target,
                   downsampled_file, final_video, polls, log_file, vtt_file,
                   exit_code, stages, harnessvars>>

\* the history when a poll is added to it: it holds the first MaxPolls
\* polls, and after that the latest poll takes the place of the one before
PollsRecorded ==
    IF polls < MaxPolls THEN trace ELSE SubSeq(trace, 1, Len(trace) - 2)

\* call_gemini, lines 629-632 / 696-699: one turn of the polling loop; the
\* loop has no counter, `polls` numbers the polls of the history
PollFetch ==
    /\ pc = "poll"
    /\ StillProcessing(video_file)
    /\ polls' = IF polls < MaxPolls THEN polls + 1 ELSE polls
    /\ \E outcome \in FileStates \cup {"raise"} :
          IF outcome = "raise"
          THEN /\ trace' = PollsRecorded \o <<Ev("sleep", 5, "poll"),
                                              Ev("get", polls', "raise"),
                                              Log("gemini-api-error")>>
               /\ result' = NoResult
               /\ pc' = "check_result"
               /\ UNCHANGED video_file
          ELSE /\ trace' = PollsRecorded \o <<Ev("sleep", 5, "poll"),
                                              Ev("get", polls', outcome)>>
               /\ video_file' = outcome
               /\ UNCHANGED <<result, pc>>
    /\ UNCHANGED <<globals, environment, mainvars, code,
                   video_path, api_key,
                   prompt_path, metadata, subtitles_file, success, target,
                   downsampled_file, final_video, log_file, vtt_file,
                   exit_code, stages, harnessvars>>

\* call_gemini, lines 634-638 / 701-705: the loop has ended
PollDone ==
    /\ pc = "poll"
    /\ ~StillProcessing(video_file)
    /\ IF ProcessingFailed(video_file)
       THEN /\ trace' = Append(trace, Log("video-processing-failed"))
            /\ result' = NoResult
            /\ pc' = "check_result"
       ELSE /\ trace' = Append(trace, Log("video-uploaded-and-processed"))
            /\ pc' = "grace"
            /\ UNCHANGED result
    /\ UNCHANGED <<globals, environment, mainvars, code,
                   video_path, api_key,
                   prompt_path, metadata, subtitles_file, success, target,
                   downsampled_file, final_video, video_file, polls,
                   log_file, vtt_file, exit_code, stages, harnessvars>>

\* call_gemini, lines 640-642 / 707-709: the propagation wait
GraceSleep ==
    /\ pc = "grace"
    /\ trace' = Append(trace, Ev("sleep", 5, "propagation"))
    /\ pc' = "generate"
    /\ UNCHANGED <<globals, environment, mainvars, code,
                   video_path, api_key,
                   prompt_path, metadata, subtitles_file, success, target,
                   downsampled_file, final_video, video_file, polls, result,
                   log_file, vtt_file, exit_code, stages, harnessvars>>

\* call_gemini, lines 644-767: the generation request, the extraction of
\* the VTT from its text, and the outer `except Exception`
Generate ==
    /\ pc = "generate"
    /\ \E outcome \in {"ok", "err-404", "err-other"}, raw \in SampleResponses :
          IF outcome = "ok"
          THEN /\ trace' = Append(trace, Ev("generate_content", 0, outcome))
               /\ result' = [some |-> TRUE, raw |-> raw,
                             vtt |-> ExtractVtt(raw)]
          ELSE /\ trace' = trace \o <<Ev("generate_content", 0, outcome)>>
                                 \o NotFoundDiagnostics(GENAI_NEW, outcome)
                                 \o <<Log("gemini-api-error")>>
               /\ result' = NoResult
    /\ pc' = "check_result"
    /\ UNCHANGED <<globals, environment, mainvars, code,
                   video_path, api_key,
                   prompt_path, metadata, subtitles_file, success, target,
                   downsampled_file, final_video, video_file, polls,
                   log_file, vtt_file, exit_code, stages, harnessvars>>

\* cmd_convert: `if not result`
EnhanceFailed(res) == ~res.some

\* cmd_convert, lines 868-872
CheckResult ==
    /\ pc = "check_result"
    /\ stages' = Append(stages, Stage("enhance", result.some))
    /\ IF EnhanceFailed(result)
       THEN Exit(1)
       ELSE pc' = "write_log" /\ UNCHANGED exit_code
    /\ UNCHANGED <<globals, environment, mainvars, code,
                   video_path, api_key,
                   prompt_path, metadata, subtitles_file, success, target,
                   downsampled_file, final_video, video_file, polls, result,
                   log_file, vtt_file, trace, harnessvars>>

\* cmd_convert, lines 877-881
WriteLog ==
    /\ pc = "write_log"
    /\ stages' = Append(stages, Stage("persist", TRUE))
    /\ log_file' = File(result.raw)
    /\ pc' = "write_vtt"
    /\ UNCHANGED <<globals, environment, mainvars, code,
                   video_path, api_key,
                   prompt_path, metadata, subtitles_file, success, target,
                   downsampled_file, final_video, video_file, polls, result,
                   vtt_file, exit_code, trace, harnessvars>>

\* cmd_convert, lines 883-895, and main returning: exit code 0
WriteVtt ==
    /\ pc = "write_vtt"
    /\ vtt_file' = File(result.vtt)
    /\ Exit(0)
    /\ UNCHANGED <<globals, environment, mainvars, code,
                   video_path, api_key,
                   prompt_path, metadata, subtitles_file, success, target,
                   downsampled_file, final_video, video_file, polls, result,
                   log_file, trace, stages, harnessvars>>

(***************************************************************************)
(* Specifications.                                                         *)
(***************************************************************************)
(***************************************************************************)
(* main, cmd_check and cmd_test.                                           *)
(***************************************************************************)
\* what a convert run works on
convertstate == <<code, video_path, api_key, prompt_path, metadata,
                  subtitles_file, success, target, downsampled_file,
                  final_video, video_file, polls, result, log_file,
                  vtt_file, trace, stages>>

\* main, lines 1045-1056: serve is the default, and the if/elif chain tests
\* args.test, args.check, args.convert, args.serve in this order
Dispatch(args) ==
    IF "test" \in args THEN "test"
    ELSE IF "check" \in args THEN "check"
    ELSE IF "convert" \in args THEN "convert"
    ELSE "serve"

\* main, lines 1050-1051: `cmd_check()` is a statement, its return value is
\* dropped, and main returns, so the process exits with code 0
ExitCodeAfterCheck(ok) == 0

\* main, lines 1016-1056, for any set of command flags
Main ==
    /\ pc = "main"
    /\ \E args \in SUBSET {"serve", "check", "convert", "test"} :
          mode' = Dispatch(args)
    /\ pc' = CASE mode' = "test" -> "cmd_test"
               [] mode' = "check" -> "cmd_check"
               [] mode' = "convert" -> "find_video"
               [] OTHER -> "cmd_serve"
    /\ UNCHANGED <<globals, environment, all_ok, failed, convertstate,
                   exit_code, harnessvars>>

\* cmd_check, lines 252-310, and main returning after it; the two
\* check_command calls succeed or not
CmdCheck ==
    /\ pc = "cmd_check"
    /\ \E ffmpeg \in BOOLEAN, ffprobe \in BOOLEAN :
          all_ok' = (/\ ffmpeg
                     /\ ffprobe
                     /\ (HAS_MLX_WHISPER \/ HAS_WHISPER)
                     /\ HAS_GENAI)
    /\ Exit(ExitCodeAfterCheck(all_ok'))
    /\ UNCHANGED <<globals, environment, mode, failed, convertstate,
                   harnessvars>>

\* cmd_test, lines 926-932: the to_vtt_time assertions
TimeTests ==
    <<to_vtt_time([int |-> 0, frac |-> 0])
         = <<"0", "0", ":", "0", "0", ":", "0", "0", ".", "0", "0", "0">>,
      to_vtt_time([int |-> 1, frac |-> 0])
         = <<"0", "0", ":", "0", "0", ":", "0", "1", ".", "0", "0", "0">>,
      to_vtt_time([int |-> 1, frac |-> TicksPerSecond \div 2])
         = <<"0", "0", ":", "0", "0", ":", "0", "1", ".", "5", "0", "0">>,
      to_vtt_time([int |-> 61, frac |-> 0])
         = <<"0", "0", ":", "0", "1", ":", "0", "1", ".", "0", "0", "0">>,
      to_vtt_time([int |-> 3661, frac |-> 0])
         = <<"0", "1", ":", "0", "1", ":", "0", "1", ".", "0", "0", "0">>,
      to_vtt_time([int |-> 90, frac |-> 123 * (TicksPerSecond \div 1000)])
         = <<"0", "0", ":", "0", "1", ":", "3", "0", ".", "1", "2", "3">>,
      to_vtt_time([int |-> 3600, frac |-> 0])
         = <<"0", "1", ":", "0", "0", ":", "0", "0", ".", "0", "0", "0">> >>

\* cmd_test, lines 951-960: the extraction assertions on raw1, raw2, raw3
ExtractTests ==
    LET raw1 == <<"x", "s", "F", "s", "W", "s", "x", "s", "F", "s", "Done!">>
        raw2 == <<"W", "s", "x">>
        raw3 == <<"x", "s", "x">>
    IN  <<Contains(extract_vtt(raw1), "W"),
          ~Contains(extract_vtt(raw1), "Done!"),
          extract_vtt(raw2) # <<>> /\ extract_vtt(raw2)[1] = "W",
          extract_vtt(raw3) = raw3>>

\* cmd_test, lines 997-1000: the assertions on CONFIG
ConfigTests(config) ==
    <<"gemini" \in DOMAIN config,
      "video" \in DOMAIN config,
      "files" \in DOMAIN config,
      /\ "gemini" \in DOMAIN config
      /\ config.gemini.kind = "dict"
      /\ "model" \in DOMAIN config.gemini.items
      /\ config.gemini.items.model.kind = "scalar">>

\* cmd_test, lines 902-1009: the assertions in order; those on BASE_DIR and
\* on the size of the temporary file depend on the file system
SelfTests(base_dir_exists, size_ok) ==
    TimeTests \o ExtractTests \o <<base_dir_exists, TRUE, TRUE>>
    \o <<size_ok>> \o ConfigTests(load_config(config_file))

\* cmd_test, lines 902-1009
CmdTest ==
    /\ pc = "cmd_test"
    /\ \E base_dir_exists \in BOOLEAN, size_ok \in BOOLEAN :
          LET tests == SelfTests(base_dir_exists, size_ok)
          IN  failed' = Cardinality({i \in 1..Len(tests) : ~tests[i]})
    /\ IF failed' = 0
       THEN Exit(0)
       ELSE Exit(1)
    /\ UNCHANGED <<globals, environment, mode, all_ok, convertstate,
                   harnessvars>>

\* the pipeline's variables while a function is checked on its own
PipeIdle ==
    /\ HAS_MLX_WHISPER = FALSE
    /\ HAS_WHISPER = FALSE
    /\ HAS_GENAI = TRUE
    /\ GENAI_NEW = TRUE
    /\ MAX_SIZE_MB = 1
    /\ DOWNSAMPLE_TARGETS = <<>>
    /\ env_key = "unset"
    /\ secrets_file = "missing"
    /\ mode = None
    /\ all_ok = TRUE
    /\ failed = 0
    /\ code = 0
    /\ video_path = "none"
    /\ api_key = None
    /\ prompt_path = None
    /\ metadata = NoMetadata
    /\ subtitles_file = NoFile
    /\ success = FALSE
    /\ target = 0
    /\ downsampled_file = -1
    /\ final_video = None
    /\ video_file = None
    /\ polls = 0
    /\ result = NoResult
    /\ log_file = NoFile
    /\ vtt_file = NoFile
    /\ exit_code = -1
    /\ trace = <<>>
    /\ stages = <<>>

\* the harness variables at rest
TextIdle == text = <<>> /\ vtt_text = <<>>

TimeIdle == seconds = [int |-> 0, frac |-> 0] /\ stamp = <<>>

ConfIdle ==
    config_file = [state |-> "missing", doc |-> NoItems] /\ CONFIG = NoItems

PathIdle ==
    directory = {} /\ specified = <<>> /\ output = <<>> /\ counter = 0

HttpIdle == request_path = <<>> /\ resolved = NoFsPath

Init ==
    /\ PipeInit
    /\ TextIdle
    /\ TimeIdle
    /\ ConfIdle
    /\ PathIdle
    /\ HttpIdle

Next ==
    \/ Main
    \/ CmdCheck
    \/ CmdTest
    \/ FindVideo
    \/ CheckApiKey
    \/ CheckPrompt
    \/ Probe
    \/ SilentMovie
    \/ ExtractSubtitles
    \/ NoEmbeddedSubtitles
    \/ Transcribe
    \/ CheckSubtitles
    \/ DownsampleStart
    \/ TryTarget
    \/ TargetsExhausted
    \/ CheckFinalVideo
    \/ GeminiStart
    \/ Upload
    \/ PollFetch
    \/ PollDone
    \/ GraceSleep
    \/ Generate
    \/ CheckResult
    \/ WriteLog
    \/ WriteVtt

Spec == Init /\ [][Next]_vars

(***************************************************************************)
(* The pre-flight checks and the probe of cmd_convert, in every            *)
(* environment get_api_key can find.                                       *)
(***************************************************************************)
PreflightInit ==
    /\ PipeStart
    /\ pc = "find_video"
    /\ mode = "convert"
    /\ env_key \in EnvValues
    /\ secrets_file \in SecretsStates
    /\ TextIdle
    /\ TimeIdle
    /\ ConfIdle
    /\ PathIdle
    /\ HttpIdle

PreflightNext ==
    \/ FindVideo
    \/ CheckApiKey
    \/ CheckPrompt
    \/ Probe

SpecPreflight == PreflightInit /\ [][PreflightNext]_vars

(***************************************************************************)
(* call_gemini on its own, entered as cmd_convert enters it after a silent *)
(* input that needed no downsampling.  The calls call_gemini makes return, *)
(* and the statements between them run: weak fairness of every step but    *)
(* the poll, whose outcome is the remote's.                                *)
(***************************************************************************)
EnhanceInit ==
    /\ pc = "call_gemini"
    /\ mode = "convert"
    /\ all_ok = TRUE
    /\ failed = 0
    /\ HAS_MLX_WHISPER = FALSE
    /\ HAS_WHISPER = FALSE
    /\ HAS_GENAI \in BOOLEAN
    /\ GENAI_NEW \in (IF HAS_GENAI THEN BOOLEAN ELSE {FALSE})
    /\ MAX_SIZE_MB = 1
    /\ DOWNSAMPLE_TARGETS = <<>>
    /\ env_key = "set"
    /\ secrets_file = "set"
    /\ code = 0
    /\ video_path \in {"direct", "media"}
    /\ api_key = "env-key"
    /\ prompt_path = "found"
    /\ \E subs \in BOOLEAN, size \in 0..MAX_SIZE_MB :
          /\ metadata = ffprobe_check(0, TRUE, FALSE, subs, size)
          /\ trace = <<Ev("ffprobe", 0, "original"), Log("silent-movie"),
                       Ev("downsample_video", size, "original")>>
    /\ subtitles_file = File(PlaceholderDoc)
    /\ success = TRUE
    /\ target = 0
    /\ downsampled_file = -1
    /\ final_video = "original"
    /\ video_file = None
    /\ polls = 0
    /\ result = NoResult
    /\ log_file = NoFile
    /\ vtt_file = NoFile
    /\ exit_code = -1
    /\ stages = <<Stage("probe", TRUE), Stage("acquire", TRUE),
                  Stage("reduce", TRUE)>>
    /\ TextIdle
    /\ TimeIdle
    /\ ConfIdle
    /\ PathIdle
    /\ HttpIdle

EnhanceNext ==
    \/ GeminiStart
    \/ Upload
    \/ PollFetch
    \/ PollDone
    \/ GraceSleep
    \/ Generate

EnhanceFairness ==
    /\ WF_vars(GeminiStart)
    /\ WF_vars(Upload)
    /\ WF_vars(PollDone)
    /\ WF_vars(GraceSleep)
    /\ WF_vars(Generate)

SpecEnhance == EnhanceInit /\ [][EnhanceNext]_vars /\ EnhanceFairness

(***************************************************************************)
(* The extraction on its own: call_gemini's lines 746-758 applied to every *)
(* response text of at most MaxLen lexemes.  The pipeline's variables rest.*)
(***************************************************************************)
ExtractInit ==
    /\ text \in Texts
    /\ vtt_text = <<>>
    /\ pc = "extract_vtt"
    /\ PipeIdle
    /\ TimeIdle
    /\ ConfIdle
    /\ PathIdle
    /\ HttpIdle

\* call_gemini, lines 746-758, on the harness's text
ExtractStep ==
    /\ pc = "extract_vtt"
    /\ vtt_text' = ExtractVtt(text)
    /\ pc' = "extracted"
    /\ UNCHANGED <<pipestate, text, timevars, confvars, pathvars, httpvars>>

ExtractNext == ExtractStep

SpecExtract == ExtractInit /\ [][ExtractNext]_vars

(***************************************************************************)
(* to_vtt_time on its own, applied to every argument of TimeInputs.        *)
(***************************************************************************)
TimeInit ==
    /\ seconds \in TimeInputs
    /\ stamp = <<>>
    /\ pc = "to_vtt_time"
    /\ PipeIdle
    /\ TextIdle
    /\ ConfIdle
    /\ PathIdle
    /\ HttpIdle

\* to_vtt_time, lines 197-204
TimeStep ==
    /\ pc = "to_vtt_time"
    /\ stamp' = to_vtt_time(seconds)
    /\ pc' = "formatted"
    /\ UNCHANGED <<pipestate, seconds, textvars, confvars, pathvars,
                   httpvars>>

TimeNext == TimeStep

SpecTime == TimeInit /\ [][TimeNext]_vars

(***************************************************************************)
(* load_config on its own, applied to every config.json of ConfigFiles.    *)
(***************************************************************************)
ConfigInit ==
    /\ config_file \in ConfigFiles
    /\ CONFIG = NoItems
    /\ pc = "load_config"
    /\ PipeIdle
    /\ TextIdle
    /\ TimeIdle
    /\ PathIdle
    /\ HttpIdle

\* load_config, lines 39-84
ConfigStep ==
    /\ pc = "load_config"
    /\ CONFIG' = load_config(config_file)
    /\ pc' = "loaded"
    /\ UNCHANGED <<pipestate, config_file, textvars, timevars, pathvars,
                   httpvars>>

ConfigNext == ConfigStep

SpecConfig == ConfigInit /\ [][ConfigNext]_vars

(***************************************************************************)
(* get_output_path.  A file name is the sequence of its parts; the         *)
(* directory is the set of the names that exist in it.                     *)
(***************************************************************************)
\* get_output_path: f"{base_name}.{extension}" (k = 0) and
\* f"{base_name}-{counter}.{extension}"
Candidate(k) ==
    IF k = 0 THEN <<"base", ".", "ext">>
    ELSE <<"base", "-">> \o Digits(k) \o <<".", "ext">>

\* the value of --output-vtt when a path is given
ExplicitPath == <<"out", ".", "vtt">>

\* Python's None, where the value is otherwise a path
NoPath == <<None>>

\* variant of OutputExists: no name is ever found to exist
OutputExists_never(path, dir) == FALSE

\* get_output_path: `output.exists()`
OutputExists(path, dir) == path \in dir

\* get_output_path, lines 776-780: `if specified` returns the argument; else
\* the first name is formed and the counter set
OutputPathStart ==
    /\ pc = "get_output_path"
    /\ IF specified # NoPath /\ specified # <<>>
       THEN /\ output' = specified
            /\ pc' = "returned"
            /\ UNCHANGED counter
       ELSE /\ output' = Candidate(0)
            /\ counter' = 1
            /\ pc' = "output_loop"
    /\ UNCHANGED <<pipestate, directory, specified, textvars, timevars,
                   confvars, httpvars>>

\* get_output_path, lines 781-783: one turn of `while output.exists()`
OutputPathLoop ==
    /\ pc = "output_loop"
    /\ OutputExists(output, directory)
    /\ output' = Candidate(counter)
    /\ counter' = counter + 1
    /\ UNCHANGED <<pc, pipestate, directory, specified, textvars, timevars,
                   confvars, httpvars>>

\* get_output_path, line 785
OutputPathReturn ==
    /\ pc = "output_loop"
    /\ ~OutputExists(output, directory)
    /\ pc' = "returned"
    /\ UNCHANGED <<pipestate, pathvars, textvars, timevars, confvars,
                   httpvars>>

\* the directory holds any of the first names and possibly the given path;
\* `specified` is None, the empty string or a path
PathInit ==
    /\ directory \in SUBSET ({Candidate(k) : k \in 0..MaxExisting}
                             \cup {ExplicitPath})
    /\ specified \in {NoPath, <<>>, ExplicitPath}
    /\ output = <<>>
    /\ counter = 0
    /\ pc = "get_output_path"
    /\ PipeIdle
    /\ TextIdle
    /\ TimeIdle
    /\ ConfIdle
    /\ HttpIdle

PathNext ==
    \/ OutputPathStart
    \/ OutputPathLoop
    \/ OutputPathReturn

SpecPath == PathInit /\ [][PathNext]_vars

(***************************************************************************)
(* The handler on its own: a GET for every request path of RequestPaths.   *)
(***************************************************************************)
ServeInit ==
    /\ request_path \in RequestPaths
    /\ resolved = NoFsPath
    /\ pc = "do_GET"
    /\ PipeIdle
    /\ TextIdle
    /\ TimeIdle
    /\ ConfIdle
    /\ PathIdle

\* do_GET and the translate_path call of the request it hands on; the
\* media directory holds a file at the requested path or not
ServeStep ==
    /\ pc = "do_GET"
    /\ \E in_media \in BOOLEAN :
          resolved' = translate_path(do_GET(request_path), in_media)
    /\ pc' = "translated"
    /\ UNCHANGED <<pipestate, request_path, textvars, timevars, confvars,
                   pathvars>>

ServeNext == ServeStep

SpecServe == ServeInit /\ [][ServeNext]_vars

(***************************************************************************)
(* Reading the histories.                                                  *)
(***************************************************************************)
\* the positions of the history entries with one of these operations
Positions(ops) == {i \in 1..Len(trace) : trace[i].op \in ops}

\* the positions of a given log line
LogPositions(s) == {i \in 1..Len(trace) : trace[i] = Log(s)}

\* the ffmpeg attempts of the size reducer, in order
Attempts == SelectSeq(trace, LAMBDA e : e.op = "ffmpeg")

\* the stage a history entry belongs to (1 probe .. 4 enhance)
StageOfEntry(e) ==
    CASE e.op = "ffprobe" -> 1
      [] e.op \in {"extract_subtitles", "mlx_whisper", "whisper"} -> 2
      [] e.op = "log" /\ e.s \in {"silent-movie", "no-whisper-available"} -> 2
      [] e.op \in {"downsample_video", "ffmpeg"} -> 3
      [] e.op = "log" /\ e.s = "could-not-downsample" -> 3
      [] OTHER -> 4

StageOrder == <<"probe", "acquire", "reduce", "enhance", "persist">>

\* the history entries of call_gemini that hand the video to the remote API
Handovers == Positions({"call_gemini", "upload"})

(***************************************************************************)
(* Properties of the pipeline (specification Spec).                        *)
(***************************************************************************)

\* C1: the stages are invoked in the order probe, acquire, reduce, enhance,
\* persist; every external call or log line of a stage happens only after
\* every earlier stage has reported success; a stage that reports failure is
\* the last one invoked, the run then exits with code 1, and neither the log
\* file nor the final subtitle file exists.
C1_StagesFailFast ==
    /\ Len(stages) <= Len(StageOrder)
    /\ \A i \in 1..Len(stages) : stages[i].name = StageOrder[i]
    /\ \A i \in 1..Len(stages) : ~stages[i].ok => i = Len(stages)
    /\ \A i \in 1..Len(trace) :
          \A k \in 1..(StageOfEntry(trace[i]) - 1) :
             Len(stages) >= k /\ stages[k].ok
    /\ \A i \in 1..(Len(trace) - 1) :
          StageOfEntry(trace[i]) <= StageOfEntry(trace[i + 1])
    /\ (\E i \in 1..Len(stages) : ~stages[i].ok) =>
          /\ pc = "exit"
          /\ exit_code = 1
          /\ ~log_file.exists
          /\ ~vtt_file.exists
    /\ (log_file.exists \/ vtt_file.exists) =>
          /\ Len(stages) = Len(StageOrder)
          /\ \A i \in 1..Len(stages) : stages[i].ok
    /\ vtt_file.exists => log_file.exists

\* C1, witness: the size reducer reported failure and the run has stopped
C1_Witness ==
    /\ pc = "exit"
    /\ exit_code = 1
    /\ Len(stages) = 3
    /\ ~stages[3].ok
    /\ Attempts # <<>>

\* C2: the video handed to call_gemini, and so uploaded, is never larger than
\* MAX_SIZE_MB: whatever downsample_video returns is None or names a file
\* within the ceiling, and after None nothing is handed over or uploaded.
C2_UploadWithinCeiling ==
    /\ \A i \in Handovers : trace[i].n <= MAX_SIZE_MB
    /\ final_video # None => FinalVideoSize <= MAX_SIZE_MB
    /\ (Len(stages) >= 3 /\ ~stages[3].ok) =>
          /\ final_video = None
          /\ Handovers = {}
          /\ pc = "exit"

\* C2, witness: a downsampled video has been uploaded
C2_Witness ==
    /\ final_video = "downsampled"
    /\ metadata.size_mb > MAX_SIZE_MB
    /\ Positions({"upload"}) # {}

\* the last ffmpeg run of the reducer exited 0 and left a file within the
\* ceiling
LastAttemptFits ==
    code = 0 /\ downsampled_file # -1 /\ downsampled_file <= MAX_SIZE_MB

\* C3: over the ceiling, the k-th ffmpeg attempt uses the k-th configured
\* preset and reads the original input; an attempt is followed by the next
\* preset's attempt exactly when it failed or left an oversized output; the
\* reducer returns the output of the first attempt that exited 0 within the
\* ceiling, and returns None only when every preset has been attempted.
C3_PresetsInOrder ==
    /\ Len(Attempts) <= Len(DOWNSAMPLE_TARGETS)
    /\ \A k \in 1..Len(Attempts) :
          /\ k <= Len(DOWNSAMPLE_TARGETS)
          /\ Attempts[k].n = DOWNSAMPLE_TARGETS[k]
          /\ Attempts[k].s = "original"
    /\ Attempts # <<>> => metadata.size_mb > MAX_SIZE_MB
    /\ pc = "downsample_loop" =>
          /\ Len(Attempts) = target - 1
          /\ Len(Attempts) >= 1 => ~LastAttemptFits
    /\ final_video = "downsampled" =>
          /\ Len(Attempts) = target
          /\ Len(Attempts) >= 1
          /\ LastAttemptFits
    /\ LogPositions("could-not-downsample") # {} =>
          /\ final_video = None
          /\ Len(Attempts) = Len(DOWNSAMPLE_TARGETS)
          /\ Len(Attempts) >= 1 => ~LastAttemptFits

\* C3, witness: the second preset was the first to fit and was returned
C3_Witness ==
    /\ final_video = "downsampled"
    /\ Len(Attempts) = 2
    /\ Len(DOWNSAMPLE_TARGETS) >= 2
    /\ pc = "check_final_video"

\* C4: an input whose size is at most the ceiling (equal included) makes the
\* reducer return the original path, run no ffmpeg and leave no downsampled
\* file, whatever the preset list.
C4_UnderCeilingNoOp ==
    (Positions({"downsample_video"}) # {} /\ metadata.size_mb <= MAX_SIZE_MB)
    => /\ final_video = "original"
       /\ Attempts = <<>>
       /\ downsampled_file = -1

\* C4, witness: an input exactly at the ceiling, with an empty preset list
C4_Witness ==
    /\ pc = "check_final_video"
    /\ metadata.size_mb = MAX_SIZE_MB
    /\ DOWNSAMPLE_TARGETS = <<>>
    /\ final_video = "original"

\* the non-blank lines of a document
NonBlank(lines) == SelectSeq(lines, LAMBDA l : l # "")

\* transcribe_with_whisper has been called
TranscriptionInvoked ==
    \/ Positions({"mlx_whisper", "whisper"}) # {}
    \/ LogPositions("no-whisper-available") # {}

\* C5: for a probed input without an audio stream, whether or not it has a
\* subtitle stream, the baseline document is the header and one NOTE line,
\* neither extract_subtitles nor a transcription engine is invoked, the
\* baseline stage succeeds and the next thing the run does is the size
\* reduction.
C5_SilentPlaceholder ==
    (metadata.populated /\ ~metadata.has_audio /\ pc # "acquire") =>
       /\ subtitles_file.exists
       /\ NonBlank(subtitles_file.lines) =
             <<"WEBVTT", "NOTE This video has no audio track (silent film).">>
       /\ Positions({"extract_subtitles"}) = {}
       /\ ~TranscriptionInvoked
       /\ success
       /\ \/ pc = "check_subtitles"
          \/ /\ Len(stages) >= 2
             /\ stages[2].ok
             /\ \/ pc = "downsample"
                \/ \E i \in Positions({"downsample_video"}) :
                      i > 1 /\ trace[i - 1] = Log("silent-movie")

\* C5, witness: a silent input with a subtitle stream has reached the reducer
C5_Witness ==
    /\ metadata.populated
    /\ ~metadata.has_audio
    /\ metadata.has_subtitles
    /\ Positions({"downsample_video"}) # {}

\* C6, as stated: a baseline accepted from extract_subtitles (no
\* transcription followed, and the run went on to the size reduction) is a
\* non-empty file.
C6_ExtractedBaselineNonEmpty ==
    (/\ Positions({"extract_subtitles"}) # {}
     /\ ~TranscriptionInvoked
     /\ Len(stages) >= 2
     /\ stages[2].ok)
    => /\ subtitles_file.exists
       /\ subtitles_file.lines # <<>>

\* C7: transcribe_with_whisper invokes mlx_whisper when it is available,
\* whisper only when mlx_whisper is not, and neither when none is available
\* (it then logs that and fails); at most one engine is invoked in a run; an
\* engine that raises makes the stage fail and the run exit with code 1, and
\* the other engine is not tried.
C7_EngineSelection ==
    LET M == Positions({"mlx_whisper"})
        W == Positions({"whisper"})
        N == LogPositions("no-whisper-available")
    IN  /\ Cardinality(M \cup W) <= 1
        /\ M # {} => HAS_MLX_WHISPER
        /\ W # {} => ~HAS_MLX_WHISPER /\ HAS_WHISPER
        /\ N # {} =>
              /\ ~HAS_MLX_WHISPER /\ ~HAS_WHISPER
              /\ M \cup W = {}
              /\ ~success
        /\ TranscriptionInvoked =>
              /\ HAS_MLX_WHISPER => M # {}
              /\ (~HAS_MLX_WHISPER /\ HAS_WHISPER) => W # {}
              /\ (~HAS_MLX_WHISPER /\ ~HAS_WHISPER) => N # {}
        /\ \A i \in M \cup W :
              IF trace[i].s = "ok"
              THEN success
              ELSE /\ ~success
                   /\ pc \in {"check_subtitles", "exit"}
                   /\ pc = "exit" =>
                         /\ exit_code = 1
                         /\ Len(stages) = 2
                         /\ ~stages[2].ok

\* C7, witness: whisper, invoked because mlx_whisper is unavailable, raised
\* after a failed extraction and the run has stopped
C7_Witness ==
    /\ pc = "exit"
    /\ \E i \in Positions({"whisper"}) : trace[i].s = "raise"
    /\ Positions({"extract_subtitles"}) # {}

\* the history entries that report the remote file's state
Observations == Positions({"upload", "get"})

\* C8: a generation request is issued only after the upload, after the last
\* state seen of the remote file is neither PROCESSING nor FAILED (every
\* state seen before it being PROCESSING), and after the propagation sleep
\* that follows; once FAILED is seen no generation request is issued and
\* call_gemini returns None. GENAI_NEW takes both values.
C8_GenerateAfterReady ==
    /\ \A g \in Positions({"generate_content"}) :
          \E u \in Positions({"upload"}), o \in Observations,
             w \in 1..Len(trace) :
             /\ u <= o /\ o < w /\ w < g
             /\ \A k \in Observations :
                   /\ k <= o
                   /\ k < o => trace[k].s = "PROCESSING"
             /\ trace[o].s \notin {"PROCESSING", "FAILED", "raise"}
             /\ trace[w] = Ev("sleep", 5, "propagation")
    /\ (\E o \in Observations : trace[o].s = "FAILED") =>
          /\ Positions({"generate_content"}) = {}
          /\ ~result.some
          /\ pc \in {"poll", "check_result", "exit"}

\* C8, witness: on the legacy library, a poll saw the file leave PROCESSING
\* and the generation request was issued
C8_Witness ==
    /\ ~GENAI_NEW
    /\ Positions({"get"}) # {}
    /\ Positions({"generate_content"}) # {}

\* C9, as stated: a generation request that fails with a 404 is followed by
\* the log lines naming the model and the file URI, then by the re-raise,
\* and call_gemini returns None, with either client library.
C9_NotFoundDiagnosed ==
    \A g \in Positions({"generate_content"}) :
       trace[g].s = "err-404" =>
          /\ \E m, f, r \in (g + 1)..Len(trace) :
                /\ trace[m] = Log("model")
                /\ trace[f] = Log("file-uri")
                /\ trace[r].op = "raise"
                /\ m < r /\ f < r
          /\ ~result.some

(***************************************************************************)
(* Properties of the extraction (specification SpecExtract).               *)
(***************************************************************************)

\* C10, as stated: when the text holds a fenced block (an opening fence o and
\* the next fence c) with the marker inside it, followed by prose, then
\* whatever precedes the opening fence the extracted document is the block
\* from its marker up to the closing fence.
C10_FencedContentExact ==
    pc = "extracted" =>
       \A o, c \in 1..Len(text) :
          (/\ o < c
           /\ text[o] = "F" /\ text[c] = "F"
           /\ \A k \in 1..(c - 1) : k # o => text[k] # "F"
           /\ \E m \in (o + 1)..(c - 1) : text[m] = "W"
           /\ c < Len(text)
           /\ \A k \in (c + 1)..Len(text) : text[k] \in {"x", "s"}
           /\ \E k \in (c + 1)..Len(text) : text[k] = "x")
          => LET m == CHOOSE m \in (o + 1)..(c - 1) :
                         /\ text[m] = "W"
                         /\ \A j \in (o + 1)..(m - 1) : text[j] # "W"
             IN  vtt_text = Strip(SubSeq(text, m, c - 1))

\* the 1-based position of the first marker of a text that holds one
FirstMarker(t) ==
    CHOOSE i \in 1..Len(t) : t[i] = "W" /\ \A j \in 1..(i - 1) : t[j] # "W"

\* C11, as stated: for a text that holds the marker and no fence after its
\* first occurrence, the extracted document is the text from that occurrence
\* to its end, lexeme for lexeme (trailing whitespace included), and is what
\* the self-test's extract_vtt returns for the text.
C11_UnfencedToEndOfText ==
    (/\ pc = "extracted"
     /\ \E i \in 1..Len(text) : text[i] = "W"
     /\ \A k \in FirstMarker(text)..Len(text) : text[k] # "F")
    => /\ vtt_text = SubSeq(text, FirstMarker(text), Len(text))
       /\ vtt_text = extract_vtt(text)

\* C19: the extracted document is a contiguous part of the response; a
\* response without the marker is extracted whole and unchanged; a response
\* with the marker is extracted from the marker's first occurrence on, so the
\* document begins with the marker.
C19_ExtractIsSubstring ==
    pc = "extracted" =>
       /\ \E a \in 1..(Len(text) + 1), b \in 0..Len(text) :
             vtt_text = SubSeq(text, a, b)
       /\ (\A i \in 1..Len(text) : text[i] # "W") => vtt_text = text
       /\ (\E i \in 1..Len(text) : text[i] = "W") =>
             /\ vtt_text # <<>>
             /\ vtt_text[1] = "W"
             /\ \E b \in FirstMarker(text)..Len(text) :
                   vtt_text = SubSeq(text, FirstMarker(text), b)

\* C19, witness: a marker after prose and another marker, with trailing
\* whitespace and no fence
C19_Witness ==
    /\ pc = "extracted"
    /\ Len(text) >= 4
    /\ text[1] = "x"
    /\ text[2] = "W"
    /\ text[3] = "W"
    /\ text[Len(text)] = "s"
    /\ \A i \in 1..Len(text) : text[i] # "F"

(***************************************************************************)
(* Properties of to_vtt_time (specification SpecTime).                     *)
(***************************************************************************)
\* the number a string of digits denotes
RECURSIVE Value(_)
Value(ds) ==
    IF ds = <<>> THEN 0
    ELSE Value(SubSeq(ds, 1, Len(ds) - 1)) * 10
         + (CHOOSE d \in 0..9 : DigitChars[d + 1] = ds[Len(ds)])

\* the fields of a timestamp whose separators are at c1 < c2 < dot
StampFields(s) ==
    LET colons == {i \in 1..Len(s) : s[i] = ":"}
        c1 == CHOOSE i \in colons : \A j \in colons : i <= j
        c2 == CHOOSE i \in colons : \A j \in colons : j <= i
        dot == CHOOSE i \in 1..Len(s) : s[i] = "."
    IN  [hh |-> SubSeq(s, 1, c1 - 1), mm |-> SubSeq(s, c1 + 1, c2 - 1),
         ss |-> SubSeq(s, c2 + 1, dot - 1), mmm |-> SubSeq(s, dot + 1, Len(s))]

\* C12, as stated: for a non-negative argument the result reads
\* HH:MM:SS.mmm, with hours of two digits (more only from 100 on), minutes
\* and seconds of two digits up to 59 and three digits of milliseconds; read
\* back it is the argument truncated to whole milliseconds; and 0, 1.5, 3661
\* and 90.123 give 00:00:00.000, 00:00:01.500, 01:01:01.000, 00:01:30.123.
C12_TimestampRoundTrip ==
    pc = "formatted" =>
       /\ Cardinality({i \in 1..Len(stamp) : stamp[i] = ":"}) = 2
       /\ Cardinality({i \in 1..Len(stamp) : stamp[i] = "."}) = 1
       /\ \A i \in 1..Len(stamp) :
             \/ stamp[i] \in {":", "."}
             \/ \E d \in 1..10 : DigitChars[d] = stamp[i]
       /\ LET f == StampFields(stamp)
          IN  /\ Len(f.hh) >= 2
              /\ Len(f.hh) > 2 => f.hh[1] # "0"
              /\ Len(f.mm) = 2 /\ Value(f.mm) <= 59
              /\ Len(f.ss) = 2 /\ Value(f.ss) <= 59
              /\ Len(f.mmm) = 3
              /\ (Value(f.hh) * 3600) + (Value(f.mm) * 60) + Value(f.ss)
                    = seconds.int
              /\ Value(f.mmm) = seconds.frac \div (TicksPerSecond \div 1000)
       /\ seconds = [int |-> 0, frac |-> 0] =>
             stamp = <<"0", "0", ":", "0", "0", ":", "0", "0", ".",
                       "0", "0", "0">>
       /\ seconds = [int |-> 1, frac |-> TicksPerSecond \div 2] =>
             stamp = <<"0", "0", ":", "0", "0", ":", "0", "1", ".",
                       "5", "0", "0">>
       /\ seconds = [int |-> 3661, frac |-> 0] =>
             stamp = <<"0", "1", ":", "0", "1", ":", "0", "1", ".",
                       "0", "0", "0">>
       /\ seconds = [int |-> 90, frac |-> 123 * (TicksPerSecond \div 1000)] =>
             stamp = <<"0", "0", ":", "0", "1", ":", "3", "0", ".",
                       "1", "2", "3">>

(***************************************************************************)
(* Properties of load_config (specification SpecConfig).                   *)
(***************************************************************************)
\* `res` is `base` merged with `update` as stated: a key the update lacks
\* keeps the base's value; where both hold dicts the same is true one level
\* down; any other key holds the update's value whole
RECURSIVE MergedAsStated(_, _, _)
MergedAsStated(base, update, res) ==
    /\ DOMAIN res = (DOMAIN base) \cup (DOMAIN update)
    /\ \A k \in DOMAIN res :
          IF k \notin DOMAIN update THEN res[k] = base[k]
          ELSE IF k \in DOMAIN base /\ base[k].kind = "dict"
                  /\ update[k].kind = "dict"
               THEN /\ res[k].kind = "dict"
                    /\ MergedAsStated(base[k].items, update[k].items,
                                      res[k].items)
               ELSE res[k] = update[k]

\* C13: the loaded configuration is the defaults merged with the override
\* document: an absent key keeps its default at every depth, dicts on both
\* sides are merged recursively, anything else is replaced whole; so an
\* override of the preset list alone leaves its sibling and the other
\* sections at their defaults and puts the override's list in place of the
\* default list, element for element.
C13_ConfigMerge ==
    (pc = "loaded" /\ config_file.state = "valid") =>
       /\ MergedAsStated(DefaultConfig, config_file.doc, CONFIG)
       /\ config_file.doc
             = [video |-> Dict([downsample_targets |-> List(<<"custom">>)])]
          => /\ CONFIG.video.items.downsample_targets = List(<<"custom">>)
             /\ CONFIG.video.items.max_size_mb
                   = DefaultConfig.video.items.max_size_mb
             /\ \A k \in (DOMAIN DefaultConfig) \ {"video"} :
                   CONFIG[k] = DefaultConfig[k]

\* C13, witness: an override of one leaf of gemini.grounding and of the
\* preset list has been merged
C13_Witness ==
    /\ pc = "loaded"
    /\ config_file.state = "valid"
    /\ config_file.doc
          = [gemini |-> Dict([grounding |->
                                 Dict([enabled |-> Scalar("override")])]),
             video |-> Dict([downsample_targets |-> List(<<"custom">>)])]
    /\ CONFIG.gemini.items.grounding.items.enabled = Scalar("override")
    /\ CONFIG.gemini.items.grounding.items.source = Scalar("google_search")

(***************************************************************************)
(* Properties of get_output_path (specification SpecPath).                 *)
(***************************************************************************)
\* the number of names base.ext, base-1.ext, ... that exist in a row
Collisions ==
    CHOOSE n \in 0..(MaxExisting + 1) :
       /\ \A k \in 0..(n - 1) : Candidate(k) \in directory
       /\ Candidate(n) \notin directory

\* C14: without a given path the names base.ext, base-1.ext, base-2.ext, ...
\* are tried in that order and the first that does not exist is returned:
\* after N names that exist in a row it is the (N+1)-th, and it never names
\* an existing file; a given path is returned as it is, whether or not it
\* exists, and no name is tried.
C14_FirstFreeName ==
    /\ (pc = "output_loop" /\ specified \in {NoPath, <<>>}) =>
          /\ output = Candidate(counter - 1)
          /\ \A k \in 0..(counter - 2) : Candidate(k) \in directory
    /\ (pc = "returned" /\ specified \in {NoPath, <<>>}) =>
          /\ output = Candidate(Collisions)
          /\ output \notin directory
          /\ counter = Collisions + 1
    /\ (pc = "returned" /\ specified = ExplicitPath) =>
          /\ output = ExplicitPath
          /\ counter = 0

\* C14, witness: three names existed in a row and the fourth was returned,
\* a later name existing too
C14_Witness ==
    /\ pc = "returned"
    /\ specified = NoPath
    /\ Collisions = 3
    /\ Candidate(4) \in directory
    /\ output = <<"base", "-", "3", ".", "ext">>

(***************************************************************************)
(* Properties of the pre-flight checks (specification SpecPreflight).      *)
(***************************************************************************)
\* cmd_convert has called get_api_key
KeyResolved == pc \notin {"find_video", "check_api_key"} /\ video_path # "none"

\* C15: a non-empty GEMINI_API_KEY of the environment is the credential
\* whatever secrets.json holds; otherwise the key of secrets.json is, unless
\* the file is missing or unparsable or its key is absent, empty or an
\* unfilled YOUR_ placeholder; then there is no credential and the run exits
\* with code 1 before the probe or any later stage has run.
C15_CredentialOrder ==
    /\ KeyResolved =>
          /\ env_key = "set" => api_key = "env-key"
          /\ (env_key # "set" /\ secrets_file = "set") =>
                api_key = "secrets-key"
          /\ (env_key # "set" /\ secrets_file # "set") =>
                /\ api_key = None
                /\ pc = "exit"
                /\ exit_code = 1
                /\ trace = <<>>
                /\ stages = <<>>
    /\ (trace # <<>> \/ stages # <<>>) => api_key # None

\* C15, witness: the environment's key is used although secrets.json holds a
\* key too, and the probe has run
C15_Witness ==
    /\ env_key = "set"
    /\ secrets_file = "set"
    /\ api_key = "env-key"
    /\ stages # <<>>

(***************************************************************************)
(* Properties of main (specification Spec).                                *)
(***************************************************************************)
\* C16, as stated: a run of check, convert or test that has ended exited
\* with code 0 if the command succeeded (check: no required dependency is
\* missing; convert: every stage succeeded; test: no assertion failed) and
\* with code 1 if it did not.
C16_ExitCodes ==
    pc = "exit" =>
       /\ exit_code \in {0, 1}
       /\ mode = "check" => (exit_code = 0 <=> all_ok)
       /\ mode = "convert" =>
             (exit_code = 0 <=> /\ Len(stages) = Len(StageOrder)
                                /\ \A i \in 1..Len(stages) : stages[i].ok)
       /\ mode = "test" => (exit_code = 0 <=> failed = 0)

(***************************************************************************)
(* Properties of the handler (specification SpecServe).                    *)
(***************************************************************************)
\* the segments lead out of the directory they start in
RECURSIVE Escapes(_, _)
Escapes(segs, depth) ==
    IF segs = <<>> THEN FALSE
    ELSE IF Head(segs) = <<"..">>
         THEN depth = 0 \/ Escapes(Tail(segs), depth - 1)
         ELSE Escapes(Tail(segs), depth + 1)

\* C17, as stated: GET / is served from the player page, and a request path
\* that begins with /media/ (with ".." segments, percent-encoded characters
\* or further /media/ parts in it) is served from the media directory joined
\* with what follows the /media/ prefix, a path that lies under the media
\* directory.
C17_MediaPathsUnderMediaDir ==
    pc = "translated" =>
       /\ request_path = <<"/">> =>
             resolved = [root |-> "BASE_DIR", segs |-> << <<"player.html">> >>]
       /\ StartsWithMedia(request_path) =>
             LET remainder ==
                    SubSeq(unquote(request_path), 4, Len(request_path))
             IN  /\ resolved.root = "MEDIA_DIR"
                 /\ resolved.segs = Segments(remainder, <<>>)
                 /\ ~Escapes(resolved.segs, 0)

(***************************************************************************)
(* Properties of the polling loop (specification SpecEnhance).             *)
(***************************************************************************)
\* every fetch of the history comes right after one sleep of the polling
\* interval, and every such sleep is followed by a fetch
PollsArePaced ==
    /\ \A i \in Positions({"get"}) :
          i > 1 /\ trace[i - 1] = Ev("sleep", 5, "poll")
    /\ \A i \in 1..Len(trace) :
          trace[i] = Ev("sleep", 5, "poll") =>
             i < Len(trace) /\ trace[i + 1].op = "get"

\* no fetch follows an observation of a state other than PROCESSING, and
\* with such a state observed the loop is not entered again
LoopEndsAtFirstReady ==
    /\ \A o \in Observations :
          trace[o].s # "PROCESSING" =>
             \A i \in Positions({"get"}) : i <= o
    /\ (pc = "poll" /\ video_file # "PROCESSING") => ~ENABLED PollFetch

\* while PROCESSING is the state last seen, a further poll is possible
\* however many were made
NoPollLimit ==
    (pc = "poll" /\ video_file = "PROCESSING") => ENABLED PollFetch

\* from the loop with PROCESSING last seen, a step stays in the loop or is a
\* fetch that raised
LoopLeftOnlyByFetch ==
    (pc = "poll" /\ video_file = "PROCESSING") =>
       \/ pc' = "poll"
       \/ /\ pc' = "check_result"
          /\ ~result'.some
          /\ trace'[Len(trace') - 1].op = "get"
          /\ trace'[Len(trace') - 1].s = "raise"

\* C18: the loop sleeps the fixed interval before each fetch and ends at the
\* first fetch that sees a state other than PROCESSING; once such a state is
\* seen call_gemini eventually returns to cmd_convert, with a result or with
\* None; and while PROCESSING is seen the loop can only be left by a fetch
\* and another poll is always possible, so no number of polls ends a run
\* whose remote file stays PROCESSING.
C18_PollUntilReady ==
    /\ [](PollsArePaced /\ LoopEndsAtFirstReady /\ NoPollLimit)
    /\ [][LoopLeftOnlyByFetch]_vars
    /\ (pc = "poll" /\ video_file # "PROCESSING") ~> (pc = "check_result")
    /\ (pc = "poll" /\ video_file = "FAILED")
          ~> (pc = "check_result" /\ ~result.some)

\* C18, witness: the file was seen PROCESSING by the upload, a poll saw it
\* ACTIVE, and call_gemini has returned a result
C18_Witness ==
    /\ pc = "check_result"
    /\ result.some
    /\ \E u \in Positions({"upload"}) : trace[u].s = "PROCESSING"
    /\ \E g \in Positions({"get"}) : trace[g].s = "ACTIVE"

(***************************************************************************)
(* Properties of the pre-flight checks in a whole run (specification Spec).*)
(***************************************************************************)
\* something was invoked or a file was written or left on disk
SideEffects ==
    \/ trace # <<>>
    \/ stages # <<>>
    \/ subtitles_file.exists
    \/ downsampled_file # -1
    \/ log_file.exists
    \/ vtt_file.exists

\* C20: in convert mode no external tool or remote call is invoked and no
\* file is created unless the video was found (as given or under the media
\* directory), a credential was resolved and the prompt file was found; a
\* run that lacks one of the three exits with code 1 with nothing invoked
\* and nothing written.
C20_PreflightFirst ==
    /\ SideEffects =>
          /\ mode = "convert"
          /\ video_path \in {"direct", "media"}
          /\ api_key # None
          /\ prompt_path # None
    /\ (/\ mode = "convert"
        /\ pc \notin {"find_video", "check_api_key", "check_prompt"}
        /\ (video_path = "none" \/ api_key = None \/ prompt_path = None))
       => /\ pc = "exit"
          /\ exit_code = 1
          /\ ~SideEffects

\* C20, witness: the video was found under the media directory and the key
\* in secrets.json, the prompt file was not found, and the run has stopped
C20_Witness ==
    /\ pc = "exit"
    /\ video_path = "media"
    /\ api_key = "secrets-key"
    /\ prompt_path = None
    /\ exit_code = 1

====
